---- MODULE Spec2Model ----
(***************************************************************************)
(* State-machine model of the schema migration engine                      *)
(* (src-tauri/src/db/migration_runner.rs).                                 *)
(*                                                                         *)
(* The database is modelled by its committed content `db` and by the view  *)
(* of the runner's connection `conn` (committed content plus the changes   *)
(* of the open transaction).  The schema is a set of structural objects    *)
(* (tables, "table.column"), the tracking table is the sequence of its     *)
(* rows.  Every fallible call of the code (`?`) has a success and a        *)
(* failure branch.                                                         *)
(*                                                                         *)
(* The application around it (lib.rs, db/connection.rs, the commands that  *)
(* lock the Database) is modelled by `startup`, `handles`, `holder`, `task`.*)
(***************************************************************************)
EXTENDS Integers, Sequences, FiniteSets, TLC

\* ------------------------------------------------------------------ bounds
MaxRuns == 2      \* Runner invocations on one database
MaxClock == 1     \* seconds the wall clock can advance
MaxDirRuns == 1   \* invocations on a backup directory with history

\* ------------------------------------------------------- program constants
LatestVersion == 7   \* highest version of the registry
KeepBackups == 5     \* snapshots kept by pruning

VARIABLES
    db,               \* committed database: [schema, rows]
    conn,             \* the connection's view: db plus the open transaction
    backups,          \* files of the backup directory
    clock,            \* wall clock, seconds
    pc,               \* position of the runner
    caller,           \* who called apply_migration: "bootstrap" | "loop"
    run,              \* invocations started so far
    result,           \* value returned by the last finished invocation
    legacy_version,   \* bootstrap_legacy_schema: detected version
    version,          \* bootstrap_legacy_schema: retroactive loop counter
    current_version,  \* run_pending_migrations: Option<u32>
    pending,          \* run_pending_migrations: pending migrations left
    target_version,   \* run_pending_migrations: label of the backup
    backup_path,      \* run_pending_migrations: name of the snapshot
    applied,          \* run_pending_migrations: counter
    migration,        \* apply_migration: the migration being applied
    executed,         \* history: versions whose script ran in this invocation
    pre,              \* history: db when the current apply_migration began
    dbAtStart,        \* history: db when this invocation began
    dbAtPending,      \* history: db when the pending set was computed
    backupOk,         \* history: create_backup returned Ok in this invocation
    verify_result,    \* what the last call of verify_migrations returned
    prev,             \* history: result, db and directory when this one began
    startup,          \* position of the application's setup (Database::new)
    handles,          \* connections open on the database file
    holder,           \* per connection: the task holding its mutex, or "none"
    task,             \* position of each command / background task
    active_connections, \* LiveMirrorManager: credential -> JoinHandle, 0: none
    ws_tasks,         \* the WebSocket tasks spawned: [cred, state]
    connections_lock, \* who holds the Mutex of active_connections
    mcall,            \* the calls on the LiveMirrorManager in flight
    ws_positions,     \* BitgetWebSocketClient.positions: the open positions
    handlers,         \* the handle_position_event tasks spawned
    tracked_positions, \* LiveMirrorManager: pos_id -> trade, 0: none
    trades,           \* the live trades written: [pos, status]
    sched_tasks,      \* SyncScheduler.tasks: the JoinHandles held
    sync_tasks,       \* the auto-sync tasks spawned: [cred, state]
    reload            \* the calls of reload_tasks in flight

vars == <<db, conn, backups, clock, pc, caller, run, result, legacy_version,
          version, current_version, pending, target_version, backup_path,
          applied, migration, executed, pre, dbAtStart, dbAtPending,
          backupOk, verify_result, prev, startup, handles, holder, task,
          active_connections, ws_tasks, connections_lock, mcall,
          ws_positions, handlers, tracked_positions, trades,
          sched_tasks, sync_tasks, reload>>

\* ---------------------------------------------------------------- registry
NULL == "NULL"
LegacyNote == "Legacy migration - detected via introspection"

Migration(v, n, s) == [version |-> v, name |-> n, sql |-> s]

\* collect_migrations: the compiled registry, in order
collect_migrations ==
    << Migration(0, "bootstrap", "000_bootstrap.sql"),
       Migration(1, "initial_schema", "001_initial_schema.sql"),
       Migration(2, "add_planned_and_effective_entries",
                    "002_add_planned_and_effective_entries.sql"),
       Migration(3, "add_import_source", "003_add_import_source.sql"),
       Migration(4, "add_auto_sync_columns", "004_add_auto_sync_columns.sql"),
       Migration(5, "add_live_mirror_column", "005_add_live_mirror_column.sql"),
       Migration(6, "add_soft_delete", "006_add_soft_delete.sql"),
       Migration(7, "add_execution_calculations",
                    "007_add_execution_calculations.sql") >>

\* Mutant: two entries of the registry are registered in the wrong order.
migrations_swapped ==
    [i \in 1..Len(collect_migrations) |->
        IF i = 4 THEN collect_migrations[5]
        ELSE IF i = 5 THEN collect_migrations[4]
        ELSE collect_migrations[i]]

migrations == collect_migrations

\* self.migrations[i] (0-based in the code)
MigrationAt(i) == migrations[i + 1]

\* Migration::checksum: the SHA-256 digest of the script text, in hex
checksum(m) == "sha256:" \o m.sql

\* The structural effect of each migration script (the files under
\* db/migrations/): the objects its DDL creates.
ScriptEffect(sql) ==
    CASE sql = "000_bootstrap.sql" -> {"schema_migrations"}
      [] sql = "001_initial_schema.sql" ->
            {"settings", "trades", "api_credentials", "api_sync_history"}
      [] sql = "002_add_planned_and_effective_entries.sql" ->
            {"trades.planned_entries", "trades.effective_entries"}
      [] sql = "003_add_import_source.sql" -> {"trades.import_source"}
      [] sql = "004_add_auto_sync_columns.sql" ->
            {"api_credentials.auto_sync_enabled",
             "api_credentials.auto_sync_interval"}
      [] sql = "005_add_live_mirror_column.sql" ->
            {"api_credentials.live_mirror_enabled"}
      [] sql = "006_add_soft_delete.sql" -> {"trades.deleted_at"}
      [] sql = "007_add_execution_calculations.sql" ->
            {"trades.execution_portfolio", "trades.execution_r_percent",
             "trades.execution_margin", "trades.execution_position_size",
             "trades.execution_quantity", "trades.execution_one_r",
             "trades.execution_potential_profit"}
      [] OTHER -> {}

\* execute_batch(sql) when it succeeds
ExecuteBatch(schema, sql) == schema \cup ScriptEffect(sql)

Effect(v) == ScriptEffect(MigrationAt(v).sql)

\* A database built from the raw DDL of migrations 1..=k, no tracking table
RECURSIVE RawSchema(_)
RawSchema(k) == IF k = 0 THEN {} ELSE ExecuteBatch(RawSchema(k - 1), MigrationAt(k).sql)

LegacyDb(k) == [schema |-> RawSchema(k), rows |-> <<>>]

\* ------------------------------------------------------------ tracking table
Row(v, n, c, notes) == [version |-> v, name |-> n, checksum |-> c, notes |-> notes]

Versions(rows) == {rows[i].version : i \in 1..Len(rows)}

RowsOf(rows, v) == {i \in 1..Len(rows) : rows[i].version = v}

SetMax(S) == CHOOSE x \in S : \A y \in S : y <= x

None == [some |-> FALSE, v |-> 0]
Some(x) == [some |-> TRUE, v |-> x]

\* has_schema_migrations_table
has_schema_migrations_table(c) == "schema_migrations" \in c.schema

\* has_trades_table
has_trades_table(c) == "trades" \in c.schema

\* column_exists
column_exists(c, table, column) == (table \o "." \o column) \in c.schema

SetMin(S) == CHOOSE x \in S : \A y \in S : x <= y

\* Mutant: the query selects MIN(version).
get_current_version_min(c) ==
    IF ~("schema_migrations" \in c.schema) THEN None
    ELSE IF Len(c.rows) = 0 THEN None
    ELSE Some(SetMin(Versions(c.rows)))

\* Mutant: the query skips the rows without a checksum.
get_current_version_checksummed(c) ==
    LET V == {c.rows[i].version : i \in {j \in 1..Len(c.rows) : c.rows[j].checksum # NULL}} IN
    IF ~("schema_migrations" \in c.schema) THEN None
    ELSE IF V = {} THEN None
    ELSE Some(SetMax(V))

\* get_current_version: None without the table, else SELECT MAX(version)
get_current_version(c) ==
    IF ~has_schema_migrations_table(c) THEN None
    ELSE IF Len(c.rows) = 0 THEN None
    ELSE Some(SetMax(Versions(c.rows)))

\* Mutant: the probes of versions 5 and 4 are swapped.
detect_legacy_version_swapped(c) ==
    IF column_exists(c, "trades", "execution_portfolio") THEN 7
    ELSE IF column_exists(c, "trades", "deleted_at") THEN 6
    ELSE IF column_exists(c, "api_credentials", "auto_sync_enabled") THEN 4
    ELSE IF column_exists(c, "api_credentials", "live_mirror_enabled") THEN 5
    ELSE IF column_exists(c, "trades", "import_source") THEN 3
    ELSE IF column_exists(c, "trades", "planned_entries") THEN 2
    ELSE IF has_trades_table(c) THEN 1
    ELSE 0

\* Mutant: the last probe (the trades table) is left out.
detect_legacy_version_no_table_probe(c) ==
    IF column_exists(c, "trades", "execution_portfolio") THEN 7
    ELSE IF column_exists(c, "trades", "deleted_at") THEN 6
    ELSE IF column_exists(c, "api_credentials", "live_mirror_enabled") THEN 5
    ELSE IF column_exists(c, "api_credentials", "auto_sync_enabled") THEN 4
    ELSE IF column_exists(c, "trades", "import_source") THEN 3
    ELSE IF column_exists(c, "trades", "planned_entries") THEN 2
    ELSE 1

\* detect_legacy_version: newest structural marker first
detect_legacy_version(c) ==
    IF column_exists(c, "trades", "execution_portfolio") THEN 7
    ELSE IF column_exists(c, "trades", "deleted_at") THEN 6
    ELSE IF column_exists(c, "api_credentials", "live_mirror_enabled") THEN 5
    ELSE IF column_exists(c, "api_credentials", "auto_sync_enabled") THEN 4
    ELSE IF column_exists(c, "trades", "import_source") THEN 3
    ELSE IF column_exists(c, "trades", "planned_entries") THEN 2
    ELSE IF has_trades_table(c) THEN 1
    ELSE 0

\* Mutant: the filter skips the version right after the current one.
PendingFilterSkipsNext(cv, m) ==
    IF cv.some THEN m.version > cv.v + 1
    ELSE m.version > 0

\* Mutant: the filter uses >= and selects the current version again.
PendingFilterInclusive(cv, m) ==
    IF cv.some THEN m.version >= cv.v
    ELSE m.version > 0

\* Mutant: with an empty tracking table the bootstrap is selected too.
PendingFilterNoneIncludesBootstrap(cv, m) ==
    IF cv.some THEN m.version > cv.v
    ELSE m.version >= 0

\* the filter closure of run_pending_migrations
PendingFilter(cv, m) ==
    IF cv.some THEN m.version > cv.v
    ELSE m.version > 0   \* bootstrap is 0, skipped when the table exists

\* Mutant: the newest migration of the registry is never selected.
ComputePendingDropsLast(cv) ==
    SelectSeq(migrations,
              LAMBDA m : PendingFilter(cv, m) /\ m.version < LatestVersion)

\* let pending = self.migrations.iter().filter(..).collect()
ComputePending(cv) == SelectSeq(migrations, LAMBDA m : PendingFilter(cv, m))

\* --------------------------------------------------------- returned values
NoResult == [status |-> "none", applied |-> 0, at |-> ""]
Ok(n) == [status |-> "ok", applied |-> n, at |-> ""]
Err(at) == [status |-> "err", applied |-> 0, at |-> at]

NoMigration == Migration(0, "", "")
NoPath == <<0, 0>>

\* ------------------------------------------------------------ application
\* The connections on the database file: the one Database::new opens and
\* the one start_live_mirroring opens
Handles == {"main", "mirror"}

\* The commands and background tasks that use a Database
Tasks == {"test_api_credentials", "sync_exchange_trades",
          "start_live_mirroring", "handle_position_event"}

\* The credentials stored in api_credentials
Credentials == {"cred1", "cred2"}

\* Command invocations that run at the same time (async commands)
Callers == {"ui1", "ui2"}

NoCall == [op |-> "none", cred |-> "none", pc |-> "idle", ret |-> "none"]

\* The positions the exchange reports
Positions == {"pos1", "pos2"}

\* The callers of reload_tasks: SyncScheduler::start (spawned by the setup
\* closure) and the reload_sync_scheduler command
Reloaders == {"start", "reload_sync_scheduler"}

NoReload == [pc |-> "idle", creds |-> <<>>, handle |-> 0]

\* SyncScheduler::start has not run yet
NewReload == [pc |-> "new", creds |-> <<>>, handle |-> 0]

\* ------------------------------------------------------------------- Init
\* The runner before its first invocation, on database d with the backup
\* directory holding `files`
RunnerStart(d, files) ==
    /\ db = d
    /\ conn = db
    /\ backups = files
    /\ clock = 0
    /\ pc = "idle"
    /\ caller = "none"
    /\ run = 0
    /\ result = NoResult
    /\ legacy_version = 0
    /\ version = 0
    /\ current_version = None
    /\ pending = <<>>
    /\ target_version = 0
    /\ backup_path = NoPath
    /\ applied = 0
    /\ migration = NoMigration
    /\ executed = <<>>
    /\ pre = db
    /\ dbAtStart = db
    /\ dbAtPending = db
    /\ backupOk = FALSE
    /\ verify_result = "none"
    /\ prev = [result |-> NoResult, db |-> db, dir |-> backups]

\* LiveMirrorManager::new(): no connection registered
MirrorStart ==
    /\ active_connections = [c \in Credentials |-> 0]
    /\ ws_tasks = <<>>
    /\ connections_lock = "none"
    /\ mcall = [u \in Callers |-> NoCall]

\* LiveMirrorManager::new(), BitgetWebSocketClient::new(): empty maps
EventStart ==
    /\ ws_positions = {}
    /\ handlers = <<>>
    /\ tracked_positions = [p \in Positions |-> 0]
    /\ trades = <<>>

\* SyncScheduler::new(): no task; start() is yet to run
SchedStart ==
    /\ sched_tasks = <<>>
    /\ sync_tasks = <<>>
    /\ reload = [r \in Reloaders |-> IF r = "start" THEN NewReload ELSE NoReload]

AsyncStart == MirrorStart /\ EventStart /\ SchedStart

\* The state before the first invocation, on database d with the backup
\* directory holding `files`: the application is not started
StartDir(d, files) ==
    /\ RunnerStart(d, files)
    /\ AsyncStart
    /\ startup = "start"
    /\ handles = {}
    /\ holder = [h \in Handles |-> "none"]
    /\ task = [t \in Tasks |-> "idle"]

\* The state before the first invocation, no backup directory yet
Start(d) == StartDir(d, {})

\* The state when the setup closure has returned Ok: the Database, the
\* SyncScheduler and the LiveMirrorManager are managed, no command has run
InitManaged ==
    /\ RunnerStart(LegacyDb(LatestVersion), {})
    /\ AsyncStart
    /\ startup = "running"
    /\ handles = {"main"}
    /\ holder = [h \in Handles |-> "none"]
    /\ task = [t \in Tasks |-> "idle"]

\* The state when start_mirroring has returned Ok for one credential: its
\* WebSocket task is running, no position has been reported yet
InitMirroring ==
    /\ RunnerStart(LegacyDb(LatestVersion), {})
    /\ startup = "running"
    /\ handles = {"main", "mirror"}
    /\ holder = [h \in Handles |-> "none"]
    /\ task = [t \in Tasks |-> "idle"]
    /\ active_connections = [c \in Credentials |-> IF c = "cred1" THEN 1 ELSE 0]
    /\ ws_tasks = <<[cred |-> "cred1", state |-> "running"]>>
    /\ connections_lock = "none"
    /\ mcall = [u \in Callers |-> NoCall]
    /\ EventStart
    /\ SchedStart

\* A database of an earlier release: the schema of migrations 1..=k, no
\* tracking table (k = 0: a new, empty database)
Init == \E k \in 0..LatestVersion : Start(LegacyDb(k))

dbVars == <<db, conn>>
mirrorVars == <<active_connections, ws_tasks, connections_lock, mcall>>
eventVars == <<ws_positions, handlers, tracked_positions, trades>>
schedVars == <<sched_tasks, sync_tasks, reload>>
asyncVars == <<mirrorVars, eventVars, schedVars>>
appVars == <<startup, handles, holder, task, asyncVars>>
fsVars == <<backups, clock>>
locals == <<legacy_version, version, current_version, pending, target_version,
            backup_path, applied, migration, caller>>
hist == <<executed, pre, dbAtStart, dbAtPending, backupOk, prev>>

\* `return Err(..)` out of run_pending_migrations (also through `?`)
ReturnErr(at) ==
    /\ pc' = "idle"
    /\ result' = Err(at)

\* `return Ok(n)` out of run_pending_migrations
ReturnOk(n) ==
    /\ pc' = "idle"
    /\ result' = Ok(n)

\* ------------------------------------------------- run_pending_migrations
\* The caller invokes the runner on the database.
RunnerCall ==
    /\ pc = "idle"
    /\ run < MaxRuns
    /\ run' = run + 1
    /\ pc' = "legacy_check"
    /\ result' = NoResult
    /\ legacy_version' = 0
    /\ version' = 0
    /\ current_version' = None
    /\ pending' = <<>>
    /\ target_version' = 0
    /\ backup_path' = NoPath
    /\ applied' = 0
    /\ migration' = NoMigration
    /\ caller' = "none"
    /\ executed' = <<>>
    /\ pre' = db
    /\ dbAtStart' = db
    /\ dbAtPending' = db
    /\ backupOk' = FALSE
    /\ verify_result' = "none"
    /\ prev' = [result |-> result, db |-> db, dir |-> backups]
    /\ UNCHANGED <<dbVars, fsVars, appVars>>

\* if !self.has_schema_migrations_table(conn)? { bootstrap } 
LegacyCheck ==
    /\ pc = "legacy_check"
    /\ \/ /\ pc' = IF has_schema_migrations_table(conn) THEN "get_version" ELSE "detect"
          /\ UNCHANGED result
       \/ ReturnErr("legacy_check")
    /\ UNCHANGED <<dbVars, fsVars, run, verify_result, appVars, locals, hist>>

\* ------------------------------------------------ bootstrap_legacy_schema
\* Mutant: migration 0 was applied before the detector ran.
DbWhenDetectFailsTableCreated(d) ==
    [d EXCEPT !.schema = @ \cup {"schema_migrations"}]

\* What the database holds when detect_legacy_version returns Err: the
\* detector is the first call of the bootstrap, nothing was written
DbWhenDetectFails(d) == d

\* let legacy_version = self.detect_legacy_version(conn)?;
\* then self.apply_migration(conn, &self.migrations[0])
Detect ==
    /\ pc = "detect"
    /\ \/ /\ legacy_version' = detect_legacy_version(conn)
          /\ migration' = MigrationAt(0)
          /\ caller' = "bootstrap"
          /\ pc' = "apply_begin"
          /\ UNCHANGED result
       \/ /\ ReturnErr("detect")
          /\ UNCHANGED <<legacy_version, migration, caller>>
    /\ db' = IF pc' = "idle" THEN DbWhenDetectFails(db) ELSE db
    /\ conn' = IF pc' = "idle" THEN DbWhenDetectFails(conn) ELSE conn
    /\ UNCHANGED <<fsVars, run, verify_result, appVars, version, current_version, pending,
                   target_version, backup_path, applied, hist>>

\* ---------------------------------------------------------- apply_migration
\* Mutant: the DDL of the script is not part of the transaction.
RollbackKeepsSchema(c, d) ==
    LET kept == [d EXCEPT !.schema = c.schema] IN [db |-> kept, conn |-> kept]

\* Mutant: the record insert is not part of the transaction.
RollbackKeepsRows(c, d) ==
    LET kept == [d EXCEPT !.rows = c.rows] IN [db |-> kept, conn |-> kept]

\* What the connection and the database hold once a transaction is dropped
\* without commit (rusqlite rolls back on drop).
Rollback(c, d) == [db |-> d, conn |-> d]

\* Mutant: the bootstrap migration is counted too.
CountsAsAppliedAlways(who) == TRUE

\* `applied += 1` is in the apply loop only
CountsAsApplied(who) == who = "loop"

\* Mutant: the bootstrap goes to the consistency check right after
\* migration 0, before the retroactive records are written.
AfterApplyOkSkipsRetro(who) == IF who = "bootstrap" THEN "validate" ELSE "loop"

\* Where control goes when apply_migration returned Ok
AfterApplyOk(who) == IF who = "bootstrap" THEN "retro" ELSE "loop"

\* Mutant: the apply loop logs the failure and goes on with the next one.
AfterApplyErrContinue(who) == IF who = "loop" THEN "loop" ELSE "idle"

\* Where control goes when apply_migration returned Err: `?` in the
\* bootstrap, `return Err(e)` in the apply loop
AfterApplyErr(who) == "idle"

\* apply_migration returns Err: the transaction is dropped
ApplyFails(at) ==
    LET r == Rollback(conn, db)
        next == AfterApplyErr(caller) IN
    /\ db' = r.db
    /\ conn' = r.conn
    /\ pc' = next
    /\ result' = IF next = "idle" THEN Err(at) ELSE result

\* let tx = conn.unchecked_transaction()?;
ApplyBegin ==
    /\ pc = "apply_begin"
    /\ pre' = db
    /\ \/ /\ pc' = "apply_exec"
          /\ UNCHANGED <<dbVars, result>>
       \/ ApplyFails("apply_begin")
    /\ UNCHANGED <<fsVars, run, verify_result, appVars, locals, executed, dbAtStart, dbAtPending,
                   backupOk, prev>>

\* tx.execute_batch(migration.sql)?;
ApplyExec ==
    /\ pc = "apply_exec"
    /\ executed' = Append(executed, migration.version)
    /\ \/ /\ conn' = [conn EXCEPT !.schema = ExecuteBatch(@, migration.sql)]
          /\ pc' = "apply_insert"
          /\ UNCHANGED <<db, result>>
       \/ ApplyFails("apply_exec")
    /\ UNCHANGED <<fsVars, run, verify_result, appVars, locals, pre, dbAtStart, dbAtPending,
                   backupOk, prev>>

\* Mutant: the table keeps one row, the latest version, replaced on insert.
InsertRecordSingleRow(rows, r) == <<r>>

\* INSERT INTO schema_migrations (..) VALUES (..): one row more
InsertRecord(rows, r) == Append(rows, r)

\* Mutant: the stored checksum is the digest of the name, not of the script.
AppliedRowDigestOfName(m) ==
    Row(m.version, m.name, "sha256:" \o m.name, NULL)

\* the row apply_migration inserts: freshly computed checksum, NULL notes
AppliedRow(m) == Row(m.version, m.name, checksum(m), NULL)

\* tx.execute("INSERT INTO schema_migrations ... VALUES (?, ?, ?, ?, ?, NULL)")?;
ApplyInsert ==
    /\ pc = "apply_insert"
    /\ \/ /\ conn' = [conn EXCEPT !.rows = InsertRecord(@, AppliedRow(migration))]
          /\ pc' = "apply_commit"
          /\ UNCHANGED <<db, result>>
       \/ ApplyFails("apply_insert")
    /\ UNCHANGED <<fsVars, run, verify_result, appVars, locals, hist>>

\* tx.commit()?; Ok(())
ApplyCommit ==
    /\ pc = "apply_commit"
    /\ \/ /\ db' = conn
          /\ pc' = AfterApplyOk(caller)
          /\ version' = IF caller = "bootstrap" THEN 1 ELSE version
          /\ applied' = IF CountsAsApplied(caller) THEN applied + 1 ELSE applied
          /\ UNCHANGED <<conn, result>>
       \/ /\ ApplyFails("apply_commit")
          /\ UNCHANGED <<version, applied>>
    /\ UNCHANGED <<fsVars, run, verify_result, appVars, legacy_version, current_version, pending,
                   target_version, backup_path, migration, caller, hist>>

\* Mutant: the retroactive record stores a checksum computed from the
\* compiled script.
RetroRowWithChecksum(v) ==
    Row(v, MigrationAt(v).name, checksum(MigrationAt(v)), LegacyNote)

\* the retroactive row: NULL checksum, the legacy note
RetroRow(v) == Row(v, MigrationAt(v).name, NULL, LegacyNote)

\* Mutant: the range is exclusive, 1..legacy_version.
RetroInRangeExclusive(v, d) == v < d

\* version is in 1..=legacy_version (the loop starts at 1)
RetroInRange(v, d) == v <= d

\* for version in 1..=legacy_version { conn.execute("INSERT ... NULL ...")?; }
RetroInsert ==
    /\ pc = "retro"
    /\ \/ /\ RetroInRange(version, legacy_version)
          /\ \/ /\ db' = [db EXCEPT !.rows = InsertRecord(@, RetroRow(version))]
                /\ conn' = db'
                /\ version' = version + 1
                /\ UNCHANGED <<pc, result>>
             \/ /\ ReturnErr("retro")
                /\ UNCHANGED <<dbVars, version>>
       \/ /\ ~RetroInRange(version, legacy_version)
          /\ pc' = "validate"
          /\ UNCHANGED <<dbVars, version, result>>
    /\ UNCHANGED <<fsVars, run, verify_result, appVars, legacy_version, current_version, pending,
                   target_version, backup_path, applied, migration, caller, hist>>

\* self.validate_schema_integrity(conn, legacy_version)?;
validate_schema_integrity ==
    /\ pc = "validate"
    /\ \/ /\ pc' = "get_version"
          /\ UNCHANGED result
       \/ ReturnErr("validate")
    /\ UNCHANGED <<dbVars, fsVars, run, verify_result, appVars, locals, hist>>

\* ----------------------------------- run_pending_migrations, after bootstrap
\* Mutant: the backup is labelled with the first pending version.
TargetVersionFirst(pend) == pend[1].version

\* let target_version = pending.last().unwrap().version;
TargetVersion(pend) == pend[Len(pend)].version

\* current_version, the pending set and the early `return Ok(0)`
GetVersion ==
    /\ pc = "get_version"
    /\ \/ LET cv == get_current_version(conn)
              pend == ComputePending(cv) IN
          /\ current_version' = cv
          /\ pending' = pend
          /\ dbAtPending' = db
          /\ IF pend = <<>>
             THEN /\ ReturnOk(0)
                  /\ UNCHANGED target_version
             ELSE /\ target_version' = TargetVersion(pend)
                  /\ pc' = "backup"
                  /\ UNCHANGED result
       \/ /\ ReturnErr("get_version")
          /\ UNCHANGED <<current_version, pending, target_version, dbAtPending>>
    /\ UNCHANGED <<dbVars, fsVars, run, verify_result, appVars, legacy_version, version, backup_path,
                   applied, migration, caller, executed, pre, dbAtStart,
                   backupOk, prev>>

\* ------------------------------------------------------------ create_backup
\* Mutant: the source of the copy is not the database file, the snapshot
\* holds an empty database.
BackupFileOfEmptySource(name, t, content, st) ==
    [name |-> name, mtime |-> t, content |-> LegacyDb(0), state |-> st]

\* A file of the backup directory: pre_migration_v<target>_<timestamp>.db
BackupFile(name, t, content, st) ==
    [name |-> name, mtime |-> t, content |-> content, state |-> st]

\* Mutant: the filter on the file name is dropped.
IsSnapshotAnyFile(f) == TRUE

\* extension "db" and a name starting with "pre_migration_": the snapshot
\* names are the pairs <<target, timestamp>>, any other file has another name
IsSnapshot(f) == Len(f.name) = 2

\* the sets of n files that can come first when `files` is sorted by
\* modification time, oldest first
OldestFirst(files, n) ==
    {D \in SUBSET files :
        /\ Cardinality(D) = n
        /\ \A d \in D : \A k \in files \ D : d.mtime <= k.mtime}

\* Mutant: the sort is newest first, the newest snapshots are deleted.
NewestFirst(files, n) ==
    {D \in SUBSET files :
        /\ Cardinality(D) = n
        /\ \A d \in D : \A k \in files \ D : d.mtime >= k.mtime}

\* Mutant of cleanup_old_backups: deletes from the wrong end.
cleanup_deletes_newest(files) ==
    LET snaps == {f \in files : IsSnapshot(f)} IN
    IF Cardinality(snaps) > KeepBackups
    THEN {files \ R : R \in UNION {SUBSET D :
                D \in NewestFirst(snaps, Cardinality(snaps) - KeepBackups)}}
    ELSE {files}

\* cleanup_old_backups: keep the snapshot files, sort by modification time,
\* oldest first, and delete all but the last KeepBackups; a failed deletion
\* is only logged.  Yields every directory content the call can leave.
cleanup_old_backups(files) ==
    LET snaps == {f \in files : IsSnapshot(f)} IN
    IF Cardinality(snaps) > KeepBackups
    THEN {files \ R : R \in UNION {SUBSET D :
                D \in OldestFirst(snaps, Cardinality(snaps) - KeepBackups)}}
    ELSE {files}

\* Mutant: a failed backup is ignored and the apply loop is entered.
AfterBackupErrIgnored == "loop"

\* Where control goes when create_backup returned Err: `?`
AfterBackupErr == "idle"

BackupFails ==
    /\ pc' = AfterBackupErr
    /\ result' = IF AfterBackupErr = "idle" THEN Err("backup") ELSE result
    /\ UNCHANGED <<backup_path, backupOk>>

\* Mutant: the integrity check of the snapshot is skipped.
VerifyBackupSizeOnly(st) == st # "empty"

\* Verify backup: metadata.len() > 0 and PRAGMA integrity_check = "ok"
VerifyBackup(st) == st \notin {"empty", "corrupt"}

\* let backup_path = self.create_backup(db_path, target_version)?;
create_backup ==
    /\ pc = "backup"
    /\ \E t \in clock..MaxClock :
         LET name == <<target_version, t>>
             others == {f \in backups : f.name # name}
             written(st) == others \cup {BackupFile(name, t, db, st)}
         IN
         /\ clock' = t
         /\ \/ \* create_dir_all or Connection::open failed
               /\ backups' = backups
               /\ BackupFails
            \/ \* the copy failed part-way
               /\ backups' = written("corrupt")
               /\ BackupFails
            \/ \* the copy ran to completion, the file is what the disk holds
               \E st \in {"valid", "empty", "corrupt"} :
                  IF VerifyBackup(st)
                  THEN \/ \* fs::metadata, the pragma or read_dir failed
                          /\ backups' = written(st)
                          /\ BackupFails
                       \/ \* Ok(backup_path)
                          /\ backups' \in cleanup_old_backups(written(st))
                          /\ backup_path' = name
                          /\ backupOk' = TRUE
                          /\ pc' = "loop"
                          /\ UNCHANGED result
                  ELSE \* "Backup file is empty" / "integrity check failed"
                       /\ backups' = written(st)
                       /\ BackupFails
    /\ UNCHANGED <<dbVars, run, verify_result, appVars, legacy_version, version, current_version,
                   pending, target_version, applied, migration, caller,
                   executed, pre, dbAtStart, dbAtPending, prev>>

\* for migration in pending { match self.apply_migration(conn, migration) .. }
\* Ok(applied)
ApplyLoop ==
    /\ pc = "loop"
    /\ IF pending = <<>>
       THEN /\ ReturnOk(applied)
            /\ UNCHANGED <<pending, migration, caller>>
       ELSE /\ migration' = Head(pending)
            /\ pending' = Tail(pending)
            /\ caller' = "loop"
            /\ pc' = "apply_begin"
            /\ UNCHANGED result
    /\ UNCHANGED <<dbVars, fsVars, run, verify_result, appVars, legacy_version, version,
                   current_version, target_version, backup_path, applied, hist>>

\* ---------------------------------------------------------- verify_migrations
\* self.migrations.iter().find(|m| m.version == version): <<>> or <<m>>
RegistryFind(v) ==
    LET S == {i \in 1..Len(migrations) : migrations[i].version = v} IN
    IF S = {} THEN <<>> ELSE <<migrations[SetMin(S)]>>

\* Mutant: a record whose version the registry does not hold is an error.
RowMismatchUnknownFails(r) ==
    LET found == RegistryFind(r.version) IN
    found = <<>> \/ r.checksum # checksum(found[1])

\* Mutant: the stored name is compared, the checksum is not.
RowMismatchByName(r) ==
    LET found == RegistryFind(r.version) IN
    found # <<>> /\ r.name # found[1].name

\* stored_checksum != expected_checksum, for a version the registry holds
RowMismatch(r) ==
    LET found == RegistryFind(r.version) IN
    found # <<>> /\ r.checksum # checksum(found[1])

\* the loop over the selected rows: Err on the first mismatch
RECURSIVE VerifyRows(_)
VerifyRows(rows) ==
    IF rows = <<>> THEN "ok"
    ELSE IF RowMismatch(Head(rows)) THEN "mismatch"
    ELSE VerifyRows(Tail(rows))

\* verify_migrations: SELECT .. WHERE checksum IS NOT NULL, then the loop
verify_migrations(c) ==
    VerifyRows(SelectSeq(c.rows, LAMBDA r : r.checksum # NULL))

\* A caller runs verify_migrations on the migrated database (as
\* tests::test_migration_checksums does after a run that returned Ok).
VerifyCall ==
    /\ pc = "idle"
    /\ result.status = "ok"
    /\ verify_result = "none"
    /\ \/ verify_result' = verify_migrations(conn)
       \/ verify_result' = "query_failed"
    /\ UNCHANGED <<dbVars, fsVars, pc, run, result, locals, hist, appVars>>

ModifiedChecksum == "sha256:modified"

Tampered(d) ==
    \E i \in 1..Len(d.rows) : d.rows[i].checksum = ModifiedChecksum

\* The stored checksum of an applied migration is changed from outside
\* between two invocations (a modified script is simulated this way).
Tamper ==
    /\ pc = "idle"
    /\ result.status = "ok"
    /\ ~Tampered(db)
    /\ \E i \in 1..Len(db.rows) :
          /\ db.rows[i].checksum # NULL
          /\ db' = [db EXCEPT !.rows[i].checksum = ModifiedChecksum]
          /\ conn' = db'
    /\ UNCHANGED <<fsVars, pc, run, result, verify_result, appVars, locals, hist>>


Next ==
    \/ RunnerCall
    \/ LegacyCheck
    \/ Detect
    \/ ApplyBegin
    \/ ApplyExec
    \/ ApplyInsert
    \/ ApplyCommit
    \/ RetroInsert
    \/ validate_schema_integrity
    \/ GetVersion
    \/ create_backup
    \/ ApplyLoop

Spec == Init /\ [][Next]_vars

\* The runner together with its callers' verify_migrations and an outside
\* change of a stored checksum
NextVerify ==
    \/ Next
    \/ VerifyCall
    \/ Tamper

SpecVerify == Init /\ [][NextVerify]_vars

\* ------------------------------------------- arbitrary databases as inputs
\* Schemas holding the objects of any set of migrations (the columns need
\* their tables, created by migration 1), with or without a tracking table
\* holding the records 0..j-1.
SchemaOf(S) == UNION {Effect(v) : v \in S}

TrackedRows(j) == [i \in 1..j |-> AppliedRow(MigrationAt(i - 1))]

InputDbs ==
    LET sets == {S \in SUBSET (1..LatestVersion) : S = {} \/ 1 \in S} IN
    {[schema |-> SchemaOf(S), rows |-> <<>>] : S \in sets}
    \cup {[schema |-> SchemaOf(S \cup {0}), rows |-> TrackedRows(j)] :
             S \in sets, j \in 0..(LatestVersion + 1)}

InitInputs == \E d \in InputDbs : Start(d)

\* the runner up to the computation of the pending set
NextInputs ==
    \/ RunnerCall
    \/ LegacyCheck
    \/ Detect
    \/ GetVersion

SpecInputs == InitInputs /\ [][NextInputs]_vars

\* ------------------------------------------ a backup directory with history
\* Snapshots of earlier runs, oldest first, two of them written within the
\* same second, and a file that is not a snapshot and is older than all.
OldFiles ==
    {BackupFile(<<5, -6>>, -6, LegacyDb(4), "valid"),
     BackupFile(<<5, -5>>, -5, LegacyDb(4), "valid"),
     BackupFile(<<6, -4>>, -4, LegacyDb(5), "valid"),
     BackupFile(<<6, -3>>, -3, LegacyDb(5), "valid"),
     BackupFile(<<7, -2>>, -2, LegacyDb(6), "valid"),
     BackupFile(<<6, -2>>, -2, LegacyDb(5), "corrupt"),
     BackupFile(<<"journal.db-wal">>, -7, LegacyDb(0), "valid")}

FirstPendingFrom == LatestVersion - 1

\* the directories found: any of the old files
OldDirs == SUBSET OldFiles

InitBackup ==
    \E k \in FirstPendingFrom..LatestVersion : \E files \in OldDirs :
        StartDir(LegacyDb(k), files)

\* the runner, invoked up to MaxDirRuns times
NextBackup == Next /\ run' <= MaxDirRuns

SpecBackup == InitBackup /\ [][NextBackup]_vars

\* --------------------------- a backup directory with later modification times
\* Snapshots whose modification time is later than any time the clock shows
\* during the run (the clock was set back since, or the files were copied
\* or restored afterwards).
LaterFiles ==
    {BackupFile(<<v, MaxClock + i>>, MaxClock + i, LegacyDb(v - 1), "valid") :
        v \in {LatestVersion - 1, LatestVersion}, i \in 1..3}

LaterDirs == SUBSET LaterFiles

InitLater ==
    \E k \in FirstPendingFrom..LatestVersion : \E files \in LaterDirs :
        StartDir(LegacyDb(k), files)

SpecLater == InitLater /\ [][NextBackup]_vars

\* ------------------------------------- a database written by a newer build
\* The tracking table of a build whose registry went beyond LatestVersion:
\* the records 0..LatestVersion (bootstrapped from a legacy version k, so
\* 1..k without checksum) followed by up to MaxNewer records of versions
\* this registry does not hold, with or without a checksum.
MaxNewer == 2

NewerChecksums == {NULL, "sha256:newer.sql"}

TrackedFrom(k) ==
    [i \in 1..(LatestVersion + 1) |->
        IF i - 1 >= 1 /\ i - 1 <= k THEN RetroRow(i - 1)
        ELSE AppliedRow(MigrationAt(i - 1))]

NewerTails ==
    UNION {[1..n -> NewerChecksums] : n \in 1..MaxNewer}

NewerRows(t) ==
    [i \in 1..Len(t) |-> Row(LatestVersion + i, "newer", t[i], NULL)]

NewerDbs ==
    {[schema |-> SchemaOf(0..LatestVersion) \cup {"trades.newer"},
      rows |-> TrackedFrom(k) \o NewerRows(t)] :
        k \in 0..LatestVersion, t \in NewerTails}

InitNewer == \E d \in NewerDbs : Start(d)

\* the runner and a caller's verify_migrations on such a database
NextNewer ==
    \/ RunnerCall
    \/ LegacyCheck
    \/ GetVersion
    \/ VerifyCall

SpecNewer == InitNewer /\ [][NextNewer]_vars

\* ------------------------------------------------- application startup
\* (lib.rs setup closure, db/connection.rs Database::new)
runnerVars == <<fsVars, pc, run, result, verify_result, locals, hist>>

\* db/schema.sql, executed on every start: the base tables, if not there
SchemaSql == {"settings", "trades", "api_credentials", "api_sync_history"}

\* Database::new returned Err (`?`): the connection is dropped and the
\* setup closure returns Err, the application does not start
Halt ==
    /\ startup' = "halted"
    /\ handles' = handles \ {"main"}
    /\ UNCHANGED dbVars

\* let conn = Connection::open(db_path)?;
OpenDatabase ==
    /\ startup = "start"
    /\ \/ /\ handles' = handles \cup {"main"}
          /\ startup' = "pragma"
          /\ UNCHANGED dbVars
       \/ Halt
    /\ UNCHANGED <<runnerVars, asyncVars, holder, task>>

\* PRAGMA foreign_keys = ON; journal_mode = WAL
Pragmas ==
    /\ startup = "pragma"
    /\ \/ /\ startup' = "schema"
          /\ UNCHANGED <<dbVars, handles>>
       \/ Halt
    /\ UNCHANGED <<runnerVars, asyncVars, holder, task>>

\* conn.execute_batch(schema)?;
ExecuteSchema ==
    /\ startup = "schema"
    /\ \/ /\ db' = [db EXCEPT !.schema = @ \cup SchemaSql]
          /\ conn' = db'
          /\ startup' = "migrate_planned"
          /\ UNCHANGED handles
       \/ Halt
    /\ UNCHANGED <<runnerVars, asyncVars, holder, task>>

\* the application's own ALTER TABLE .. ADD COLUMN, autocommit
AddColumn(column, next) ==
    \/ /\ db' = [db EXCEPT !.schema = @ \cup {"trades." \o column}]
       /\ conn' = db'
       /\ startup' = next
       /\ UNCHANGED handles
    \/ Halt

\* Database::run_migrations: if !has_planned_entries { ADD planned_entries ..
MigratePlanned ==
    /\ startup = "migrate_planned"
    /\ \/ /\ column_exists(conn, "trades", "planned_entries")
          /\ startup' = "migrate_import"
          /\ UNCHANGED <<dbVars, handles>>
       \/ /\ ~column_exists(conn, "trades", "planned_entries")
          /\ AddColumn("planned_entries", "migrate_effective")
       \/ Halt
    /\ UNCHANGED <<runnerVars, asyncVars, holder, task>>

\* .. ADD effective_entries }
MigrateEffective ==
    /\ startup = "migrate_effective"
    /\ AddColumn("effective_entries", "migrate_import")
    /\ UNCHANGED <<runnerVars, asyncVars, holder, task>>

\* if !has_import_source { ADD import_source }  Ok(())
MigrateImport ==
    /\ startup = "migrate_import"
    /\ \/ /\ column_exists(conn, "trades", "import_source")
          /\ startup' = "wrap"
          /\ UNCHANGED <<dbVars, handles>>
       \/ /\ ~column_exists(conn, "trades", "import_source")
          /\ AddColumn("import_source", "wrap")
       \/ Halt
    /\ UNCHANGED <<runnerVars, asyncVars, holder, task>>

\* Ok(Database { conn: Mutex::new(conn) }), then app.manage(database)
ManageDatabase ==
    /\ startup = "wrap"
    /\ startup' = "running"
    /\ UNCHANGED <<dbVars, runnerVars, asyncVars, handles, holder, task>>

Startup ==
    \/ OpenDatabase \/ Pragmas \/ ExecuteSchema \/ MigratePlanned
    \/ MigrateEffective \/ MigrateImport \/ ManageDatabase

\* ------------------------------------------------ commands and tasks
Goto(t, p) == task' = [task EXCEPT ![t] = p]

\* db.conn.lock(): std::sync::Mutex, blocks until the guard is free
Lock(t, h, p) ==
    /\ h \in handles
    /\ holder[h] = "none"
    /\ holder' = [holder EXCEPT ![h] = t]
    /\ Goto(t, p)

\* Mutant: the guard is bound outside the block and lives on.
DropGuardAtReturn(hold, h) == hold

\* `};  // conn is dropped here`: the block that took the guard ends
DropGuard(hold, h) == [hold EXCEPT ![h] = "none"]

\* the function returns: every guard it still holds is dropped
Return(t) ==
    /\ holder' = [h \in Handles |-> IF holder[h] = t THEN "none" ELSE holder[h]]
    /\ Goto(t, "idle")

\* the frontend invokes a command (the state is managed once setup ran)
Invoke(t) ==
    /\ startup = "running"
    /\ task[t] = "idle"
    /\ Goto(t, "lock")
    /\ UNCHANGED <<handles, holder>>

\* commands/api_sync.rs test_api_credentials
TestApiCredentials ==
    LET t == "test_api_credentials" IN
    /\ \/ Invoke(t)
       \/ /\ task[t] = "lock"
          /\ Lock(t, "main", "query")
          /\ UNCHANGED handles
       \/ \* query_row / keychain: Ok, the block ends; Err, return
          /\ task[t] = "query"
          /\ \/ holder' = DropGuard(holder, "main") /\ Goto(t, "await")
             \/ Return(t)
          /\ UNCHANGED handles
       \/ \* client.test_credentials().await, then return
          /\ task[t] = "await"
          /\ Return(t)
          /\ UNCHANGED handles
    /\ UNCHANGED <<dbVars, runnerVars, asyncVars, startup>>

\* commands/api_sync.rs sync_exchange_trades
SyncExchangeTrades ==
    LET t == "sync_exchange_trades" IN
    /\ \/ Invoke(t)
       \/ /\ task[t] = "lock"
          /\ Lock(t, "main", "query")
          /\ UNCHANGED handles
       \/ /\ task[t] = "query"
          /\ \/ holder' = DropGuard(holder, "main") /\ Goto(t, "await")
             \/ Return(t)
          /\ UNCHANGED handles
       \/ \* client.fetch_trades(..).await: Ok, go on; Err, return
          /\ task[t] = "await"
          /\ \/ Goto(t, "lock2") /\ UNCHANGED holder
             \/ Return(t)
          /\ UNCHANGED handles
       \/ \* let mut conn = db.conn.lock()
          /\ task[t] = "lock2"
          /\ Lock(t, "main", "transaction")
          /\ UNCHANGED handles
       \/ \* conn.transaction(), the inserts, tx.commit(); return
          /\ task[t] = "transaction"
          /\ Return(t)
          /\ UNCHANGED handles
    /\ UNCHANGED <<dbVars, runnerVars, asyncVars, startup>>

\* commands/live_mirror.rs start_live_mirroring, api/live_mirror.rs
\* start_mirroring
StartLiveMirroring ==
    LET t == "start_live_mirroring" IN
    /\ \/ Invoke(t)
       \/ /\ task[t] = "lock"
          /\ Lock(t, "main", "query")
          /\ UNCHANGED handles
       \/ \* enable_position_monitor: read, block ends; disabled or Err, return
          /\ task[t] = "query"
          /\ \/ holder' = DropGuard(holder, "main") /\ Goto(t, "open")
             \/ Return(t)
          /\ UNCHANGED handles
       \/ \* Arc::new(Database { conn: Mutex::new(Connection::open(..)?) })
          /\ task[t] = "open"
          /\ \/ /\ handles' = handles \cup {"mirror"}
                /\ Goto(t, "lock_own")
                /\ UNCHANGED holder
             \/ Return(t) /\ UNCHANGED handles
       \/ \* start_mirroring: let conn = db.conn.lock() on the new Database
          /\ task[t] = "lock_own"
          /\ Lock(t, "mirror", "query_own")
          /\ UNCHANGED handles
       \/ \* exchange read; tokio::spawn of the WebSocket task; return
          /\ task[t] = "query_own"
          /\ holder' = [h \in Handles |-> IF holder[h] = t THEN "none" ELSE holder[h]]
          /\ \/ task' = [task EXCEPT ![t] = "idle",
                                     !["handle_position_event"] =
                                        IF @ = "idle" THEN "wait" ELSE @]
             \/ task' = [task EXCEPT ![t] = "idle"]
          /\ UNCHANGED handles
    /\ UNCHANGED <<dbVars, runnerVars, asyncVars, startup>>

\* api/live_mirror.rs handle_position_event -> create_live_trade /
\* update_live_trade / close_live_trade, on the Database of the mirror
HandlePositionEvent ==
    LET t == "handle_position_event" IN
    /\ \/ \* a position event arrives on the WebSocket
          /\ task[t] = "wait"
          /\ Goto(t, "lock")
          /\ UNCHANGED holder
       \/ /\ task[t] = "lock"
          /\ Lock(t, "mirror", "statement")
       \/ \* the statements of the trade; the function returns
          /\ task[t] = "statement"
          /\ holder' = [h \in Handles |-> IF holder[h] = t THEN "none" ELSE holder[h]]
          /\ Goto(t, "wait")
    /\ UNCHANGED <<dbVars, runnerVars, asyncVars, startup, handles>>

Commands ==
    \/ TestApiCredentials \/ SyncExchangeTrades
    \/ StartLiveMirroring \/ HandlePositionEvent

NextApp == Startup \/ Commands

\* ------------------------------------------------- LiveMirrorManager
\* (api/live_mirror.rs)
coreVars == <<dbVars, runnerVars, startup, handles, holder, task>>
mirrorRest == <<coreVars, eventVars, schedVars>>

MaxWsTasks == 2

\* the frontend invokes start_live_mirroring, stop_live_mirroring or
\* is_live_mirroring_active for a credential
MirrorCall(u) ==
    /\ startup = "running"
    /\ mcall[u].pc = "idle"
    /\ \E op \in {"start_mirroring", "stop_mirroring", "is_active"} :
       \E cred \in Credentials :
          mcall' = [mcall EXCEPT ![u] =
                       [op |-> op, cred |-> cred, pc |-> "lock", ret |-> "none"]]
    /\ UNCHANGED <<active_connections, ws_tasks, connections_lock, mirrorRest>>

\* self.active_connections.lock().await: waits until the Mutex is free
LockConnections(u) ==
    /\ mcall[u].pc = "lock"
    /\ connections_lock = "none"
    /\ connections_lock' = u
    /\ mcall' = [mcall EXCEPT ![u].pc = "locked"]
    /\ UNCHANGED <<active_connections, ws_tasks, mirrorRest>>

\* the call returns r; the guard is dropped
ReturnCall(u, r) ==
    /\ mcall' = [mcall EXCEPT ![u].pc = "idle", ![u].ret = r]
    /\ connections_lock' = "none"

\* Mutant: the check for a registered credential is skipped.
ContainsKeyNever(conns, cred) == FALSE

\* connections.contains_key(credential_id)
ContainsKey(conns, cred) == conns[cred] # 0

\* handle.abort(): a task that has ended already is left as it is
Abort(tasks, i) ==
    [tasks EXCEPT ![i].state = IF @ = "running" THEN "aborted" ELSE @]

\* start_mirroring, holding the lock: the check, the keychain and the
\* exchange read, tokio::spawn, connections.insert, emit
StartMirroring(u) ==
    LET cred == mcall[u].cred IN
    /\ mcall[u].op = "start_mirroring"
    /\ mcall[u].pc = "locked"
    /\ IF ContainsKey(active_connections, cred)
       THEN \* "Live mirroring already active for this credential"
            /\ ReturnCall(u, "err_active")
            /\ UNCHANGED <<active_connections, ws_tasks>>
       ELSE \/ \* keychain, db or exchange: Err before the spawn
               /\ ReturnCall(u, "err")
               /\ UNCHANGED <<active_connections, ws_tasks>>
            \/ \* the task is spawned and its handle stored; emit Ok or Err
               /\ Len(ws_tasks) < MaxWsTasks
               /\ ws_tasks' = Append(ws_tasks, [cred |-> cred, state |-> "running"])
               /\ active_connections' =
                      [active_connections EXCEPT ![cred] = Len(ws_tasks) + 1]
               /\ \E r \in {"ok", "err_emit"} : ReturnCall(u, r)
    /\ UNCHANGED mirrorRest

\* stop_mirroring: connections.remove, handle.abort()
StopMirroring(u) ==
    LET cred == mcall[u].cred IN
    /\ mcall[u].op = "stop_mirroring"
    /\ mcall[u].pc = "locked"
    /\ IF active_connections[cred] # 0
       THEN /\ ws_tasks' = Abort(ws_tasks, active_connections[cred])
            /\ active_connections' = [active_connections EXCEPT ![cred] = 0]
            /\ ReturnCall(u, "ok")
       ELSE \* "No active mirroring found for this credential"
            /\ ReturnCall(u, "err_none")
            /\ UNCHANGED <<active_connections, ws_tasks>>
    /\ UNCHANGED mirrorRest

\* is_active: connections.contains_key
IsActive(u) ==
    /\ mcall[u].op = "is_active"
    /\ mcall[u].pc = "locked"
    /\ ReturnCall(u, IF ContainsKey(active_connections, mcall[u].cred)
                     THEN "true" ELSE "false")
    /\ UNCHANGED <<active_connections, ws_tasks, mirrorRest>>

\* The spawned task comes to its end by itself: ws_client.connect returned
\* (connection or login failed, Close received, read error); the task
\* emits "live-mirror-disconnected" on Err and finishes
WsTaskEnds ==
    /\ \E i \in 1..Len(ws_tasks) :
          /\ ws_tasks[i].state = "running"
          /\ ws_tasks' = [ws_tasks EXCEPT ![i].state = "ended"]
    /\ UNCHANGED <<active_connections, connections_lock, mcall, mirrorRest>>

NextMirror ==
    \/ \E u \in Callers : MirrorCall(u)
    \/ \E u \in Callers : LockConnections(u)
    \/ \E u \in Callers : StartMirroring(u)
    \/ \E u \in Callers : StopMirroring(u)
    \/ \E u \in Callers : IsActive(u)
    \/ WsTaskEnds

SpecMirror == InitManaged /\ [][NextMirror]_vars

\* ------------------------------------------------- position events
\* (api/bitget/websocket.rs connect, process_position_update;
\* api/live_mirror.rs handle_position_event)
eventRest == <<coreVars, mirrorVars, schedVars>>

MaxEvents == 3

\* process_position_update: the event for a position report, if any
PositionEvent(known, pos, total) ==
    IF total = "zero"
    THEN IF pos \in known THEN <<"Closed">> ELSE <<>>
    ELSE IF pos \in known THEN <<"Updated">> ELSE <<"Opened">>

\* The reading loop of a running WebSocket task receives a position report:
\* process_position_update keeps the client's map and yields the event, and
\* the callback spawns a task running handle_position_event on it
PositionUpdate ==
    /\ \E i \in 1..Len(ws_tasks) : ws_tasks[i].state = "running"
    /\ Len(handlers) < MaxEvents
    /\ \E pos \in Positions : \E total \in {"zero", "positive"} :
          LET event == PositionEvent(ws_positions, pos, total) IN
          /\ event # <<>>
          /\ ws_positions' = IF total = "zero" THEN ws_positions \ {pos}
                              ELSE ws_positions \cup {pos}
          /\ handlers' = Append(handlers, [kind |-> event[1], pos |-> pos,
                                           pc |-> "spawned", trade |-> 0])
    /\ UNCHANGED <<tracked_positions, trades, eventRest>>

\* PositionEvent::Opened: create_live_trade(..).await?
HandleOpenedCreate(i) ==
    /\ handlers[i].kind = "Opened"
    /\ handlers[i].pc = "spawned"
    /\ \/ /\ trades' = Append(trades, [pos |-> handlers[i].pos, status |-> "open"])
          /\ handlers' = [handlers EXCEPT ![i].pc = "created",
                                          ![i].trade = Len(trades) + 1]
       \/ /\ handlers' = [handlers EXCEPT ![i].pc = "failed"]
          /\ UNCHANGED trades
    /\ UNCHANGED <<ws_positions, tracked_positions, eventRest>>

\* positions.insert(position.pos_id.clone(), trade_id.clone())
Track(tracked, pos, trade) == [tracked EXCEPT ![pos] = trade]

\* PositionEvent::Opened: tracked_positions.lock().await, insert, emit
HandleOpenedTrack(i) ==
    /\ handlers[i].kind = "Opened"
    /\ handlers[i].pc = "created"
    /\ tracked_positions' =
          Track(tracked_positions, handlers[i].pos, handlers[i].trade)
    /\ \E p \in {"done", "failed"} : handlers' = [handlers EXCEPT ![i].pc = p]
    /\ UNCHANGED <<ws_positions, trades, eventRest>>

\* PositionEvent::Updated: under the lock of tracked_positions, get and, if
\* the position is tracked, update_live_trade (the trade stays open)
HandleUpdated(i) ==
    /\ handlers[i].kind = "Updated"
    /\ handlers[i].pc = "spawned"
    /\ IF tracked_positions[handlers[i].pos] # 0
       THEN \E p \in {"done", "failed"} :
               handlers' = [handlers EXCEPT ![i].pc = p,
                               ![i].trade = tracked_positions[handlers[i].pos]]
       ELSE handlers' = [handlers EXCEPT ![i].pc = "done"]
    /\ UNCHANGED <<ws_positions, tracked_positions, trades, eventRest>>

\* PositionEvent::Closed: under the lock of tracked_positions, remove and,
\* if the position was tracked, close_live_trade
HandleClosed(i) ==
    LET pos == handlers[i].pos
        trade == tracked_positions[pos] IN
    /\ handlers[i].kind = "Closed"
    /\ handlers[i].pc = "spawned"
    /\ IF trade # 0
       THEN /\ tracked_positions' = [tracked_positions EXCEPT ![pos] = 0]
            /\ \/ /\ trades' = [trades EXCEPT ![trade].status = "closed"]
                  /\ \E p \in {"done", "failed"} :
                        handlers' = [handlers EXCEPT ![i].pc = p, ![i].trade = trade]
               \/ \* close_live_trade returned Err
                  /\ handlers' = [handlers EXCEPT ![i].pc = "failed", ![i].trade = trade]
                  /\ UNCHANGED trades
       ELSE /\ handlers' = [handlers EXCEPT ![i].pc = "done"]
            /\ UNCHANGED <<tracked_positions, trades>>
    /\ UNCHANGED <<ws_positions, eventRest>>

NextEvents ==
    \/ PositionUpdate
    \/ \E i \in 1..Len(handlers) : HandleOpenedCreate(i)
    \/ \E i \in 1..Len(handlers) : HandleOpenedTrack(i)
    \/ \E i \in 1..Len(handlers) : HandleUpdated(i)
    \/ \E i \in 1..Len(handlers) : HandleClosed(i)
    \/ WsTaskEnds

SpecEvents == InitMirroring /\ [][NextEvents]_vars

\* ------------------------------------------------- SyncScheduler
\* (sync/scheduler.rs)
schedRest == <<coreVars, mirrorVars, eventVars>>

MaxSyncTasks == 3

\* What get_auto_sync_credentials can return: the credentials that are
\* active with auto-sync enabled at the time of the query
CredentialLists == {<<>>, <<"cred1">>, <<"cred2">>, <<"cred1", "cred2">>}

\* reload_tasks returns
ReloadReturns(r) ==
    [pc |-> IF r = "start" THEN "done" ELSE "idle", creds |-> <<>>, handle |-> 0]

\* reload_tasks is called: by SyncScheduler::start, once, in the task the
\* setup closure spawned, or by the reload_sync_scheduler command
ReloadCall(r) ==
    /\ startup = "running"
    /\ reload[r].pc = IF r = "start" THEN "new" ELSE "idle"
    /\ reload' = [reload EXCEPT ![r].pc = "stop_all"]
    /\ UNCHANGED <<sched_tasks, sync_tasks, schedRest>>

\* task.abort() for the handles drained from the list
AbortAll(tasks, held) ==
    [i \in 1..Len(tasks) |->
        IF \E j \in 1..Len(held) : held[j] = i
        THEN [tasks[i] EXCEPT !.state = "aborted"]
        ELSE tasks[i]]

\* stop_all_tasks: tasks.write().await, drain, abort
StopAllTasks(r) ==
    /\ reload[r].pc = "stop_all"
    /\ sync_tasks' = AbortAll(sync_tasks, sched_tasks)
    /\ sched_tasks' = <<>>
    /\ reload' = [reload EXCEPT ![r].pc = "load"]
    /\ UNCHANGED schedRest

\* let credentials = self.get_auto_sync_credentials(&db)?;
GetCredentials(r) ==
    /\ reload[r].pc = "load"
    /\ \/ \E creds \in CredentialLists :
             reload' = [reload EXCEPT ![r].pc = "start", ![r].creds = creds]
       \/ reload' = [reload EXCEPT ![r] = ReloadReturns(r)]
    /\ UNCHANGED <<sched_tasks, sync_tasks, schedRest>>

\* for cred in credentials { start_task_for_credential: tokio::spawn of the
\* interval loop .. }  Ok(())
StartTask(r) ==
    /\ reload[r].pc = "start"
    /\ IF reload[r].creds = <<>>
       THEN /\ reload' = [reload EXCEPT ![r] = ReloadReturns(r)]
            /\ UNCHANGED sync_tasks
       ELSE /\ Len(sync_tasks) < MaxSyncTasks
            /\ sync_tasks' = Append(sync_tasks,
                   [cred |-> Head(reload[r].creds), state |-> "running"])
            /\ reload' = [reload EXCEPT ![r].pc = "push",
                                        ![r].handle = Len(sync_tasks) + 1]
    /\ UNCHANGED <<sched_tasks, schedRest>>

\* .. let mut tasks = self.tasks.write().await; tasks.push(handle);
PushHandle(r) ==
    /\ reload[r].pc = "push"
    /\ sched_tasks' = Append(sched_tasks, reload[r].handle)
    /\ reload' = [reload EXCEPT ![r].pc = "start", ![r].handle = 0,
                                ![r].creds = Tail(@)]
    /\ UNCHANGED <<sync_tasks, schedRest>>

NextSched ==
    \/ \E r \in Reloaders : ReloadCall(r)
    \/ \E r \in Reloaders : StopAllTasks(r)
    \/ \E r \in Reloaders : GetCredentials(r)
    \/ \E r \in Reloaders : StartTask(r)
    \/ \E r \in Reloaders : PushHandle(r)

SpecSched == InitManaged /\ [][NextSched]_vars

SpecApp == Init /\ [][NextApp]_vars



TypeOK ==
    /\ pc \in {"idle", "legacy_check", "detect", "apply_begin", "apply_exec",
               "apply_insert", "apply_commit", "retro", "validate",
               "get_version", "backup", "loop"}
    /\ run \in 0..MaxRuns
    /\ clock \in 0..MaxClock
    /\ result.status \in {"none", "ok", "err"}
    /\ verify_result \in {"none", "ok", "mismatch", "query_failed"}
    /\ startup \in {"start", "pragma", "schema", "migrate_planned",
                    "migrate_effective", "migrate_import", "wrap", "running",
                    "halted"}
    /\ handles \subseteq Handles
    /\ holder \in [Handles -> Tasks \cup {"none"}]
    /\ task \in [Tasks -> {"idle", "lock", "query", "await", "lock2",
                            "transaction", "open", "lock_own", "query_own",
                            "wait", "statement"}]
    /\ active_connections \in [Credentials -> 0..MaxWsTasks]
    /\ Len(ws_tasks) <= MaxWsTasks
    /\ connections_lock \in Callers \cup {"none"}
    /\ \A u \in Callers : mcall[u].pc \in {"idle", "lock", "locked"}
    /\ ws_positions \subseteq Positions
    /\ Len(handlers) <= MaxEvents
    /\ tracked_positions \in [Positions -> 0..MaxEvents]
    /\ Len(trades) <= MaxEvents
    /\ Len(sync_tasks) <= MaxSyncTasks
    /\ Len(sched_tasks) <= MaxSyncTasks
    /\ \A r \in Reloaders :
          reload[r].pc \in {"new", "idle", "stop_all", "load", "start", "push", "done"}

\* ================================================================== claims
ApplyPcs == {"apply_begin", "apply_exec", "apply_insert", "apply_commit"}

\* the runner returned an error out of apply_migration
ApplyFailed == pc = "idle" /\ result.status = "err" /\ result.at \in ApplyPcs

Recorded(d) == Versions(d.rows)

\* the versions that were pending when the pending set was computed
PendingVersions ==
    {v \in 0..LatestVersion : PendingFilter(current_version, MigrationAt(v))}

\* C1: in every reachable state the versions recorded in the committed
\* tracking table are a contiguous prefix 0..max: no version is recorded
\* while a lower one has no record.
C1_ContiguousPrefix ==
    LET V == Recorded(db) IN V = {} \/ V = 0..SetMax(V)

\* C1 witness: a failed invocation left a partial prefix and the next one
\* brought the table to the latest version.
C1_Witness ==
    /\ pc = "idle" /\ run = 2
    /\ prev.result.status = "err" /\ prev.result.at = "apply_exec"
    /\ Len(prev.db.rows) = 3
    /\ result.status = "ok"
    /\ Recorded(db) = 0..LatestVersion

\* a step inside apply_migration leaves the committed database alone or
\* commits the schema effect and the record together
ApplyStepAtomic ==
    pc \in ApplyPcs =>
        \/ db' = db
        \/ /\ db'.schema = ExecuteBatch(db.schema, migration.sql)
           /\ db'.rows = Append(db.rows,
                  Row(migration.version, migration.name,
                      checksum(migration), NULL))

\* C2: apply_migration is atomic: every step taken inside it leaves the
\* committed database as it was, or commits the script's schema effect
\* together with the migration's record; never one without the other.
C2_ApplyAtomic == [][ApplyStepAtomic]_vars

\* C2 witness: the script ran, the record insert failed, and neither the
\* schema effect nor the record is in the database.
C2_Witness ==
    /\ pc = "idle" /\ result.status = "err" /\ result.at = "apply_insert"
    /\ caller = "loop"
    /\ Effect(migration.version) \cap db.schema = {}
    /\ migration.version \notin Recorded(db)

\* C3: when apply_migration fails, the runner returns the error, the
\* committed database and the connection's view equal the database before
\* the failed apply, the failed version has no record, the max version is
\* still the version before it, and none of the failed migration's objects
\* that were absent before the apply exist.
C3_FailedApplyLeavesDb ==
    ApplyFailed =>
        /\ db = pre
        /\ conn = db
        /\ migration.version \notin Recorded(db)
        /\ caller = "loop" =>
              get_current_version(db) = Some(migration.version - 1)
        /\ Effect(migration.version) \cap db.schema
              = Effect(migration.version) \cap pre.schema

\* C3 witness: migrations 0..2 applied, migration 3 failed at commit, and
\* none of its objects exist.
C3_Witness ==
    /\ ApplyFailed /\ result.at = "apply_commit"
    /\ migration.version = 3
    /\ Recorded(db) = 0..2
    /\ \A i \in 1..Len(db.rows) : db.rows[i].checksum # NULL
    /\ Effect(3) \cap db.schema = {}

\* the scripts the apply loop executed in this invocation (the bootstrap
\* runs script 0 only)
LoopExecuted == SelectSeq(executed, LAMBDA v : v > 0)

\* C4: the apply loop runs the pending scripts in ascending order, goes on
\* to the next one only when the one before is committed, and stops at the
\* first failure: the error is returned, every pending version below the
\* failed one is recorded and no version above it was attempted.
C4_LoopStopsAtFirstFailure ==
    /\ \A i \in 1..(Len(LoopExecuted) - 1) :
          /\ LoopExecuted[i + 1] = LoopExecuted[i] + 1
          /\ LoopExecuted[i] \in Recorded(db)
    /\ (ApplyFailed /\ caller = "loop") =>
          /\ \A v \in PendingVersions :
                v < migration.version => v \in Recorded(db)
          /\ \A v \in PendingVersions :
                v >= migration.version => v \notin Recorded(db)
          /\ \A i \in 1..Len(executed) : executed[i] <= migration.version

\* C4 witness: pending 4..7, migrations 4 and 5 committed, 6 failed.
C4_Witness ==
    /\ ApplyFailed /\ caller = "loop"
    /\ PendingVersions = 4..LatestVersion
    /\ migration.version = 6
    /\ LoopExecuted = <<4, 5, 6>>
    /\ Recorded(db) = 0..5

\* C5: every version has at most one record, and a script is never
\* executed on a database whose tracking table already records its version.
C5_AppliedAtMostOnce ==
    /\ \A v \in 0..LatestVersion : Cardinality(RowsOf(db.rows, v)) <= 1
    /\ pc = "apply_exec" => migration.version \notin Recorded(conn)

\* C5 witness: a later invocation is about to execute a script on a
\* database that already records lower versions.
C5_Witness ==
    /\ run = 2 /\ pc = "apply_exec"
    /\ caller = "loop"
    /\ Recorded(db) = 0..(migration.version - 1)

\* C6: a pending migration is applied only after create_backup returned Ok
\* in the same invocation; when create_backup fails the runner returns the
\* error and the database is as it was when the pending set was computed.
C6_BackupBeforeApply ==
    /\ (caller = "loop" \/ pc = "loop") => backupOk
    /\ LoopExecuted # <<>> => backupOk
    /\ (pc = "idle" /\ result.status = "err" /\ result.at = "backup") =>
          /\ db = dbAtPending
          /\ conn = db
          /\ LoopExecuted = <<>>

\* C6 witness: create_backup failed with migrations pending and left an
\* invalid snapshot behind.
C6_Witness ==
    /\ pc = "idle" /\ result.status = "err" /\ result.at = "backup"
    /\ pending # <<>>
    /\ \E f \in backups : f.state = "empty"

\* C7 (as claimed): the database is not changed in an invocation before
\* create_backup returned Ok in that invocation, the bootstrap's version-0
\* migration and retroactive records included.
C7_NoMutationBeforeBackup == db # dbAtStart => backupOk

\* C8: after an invocation that returned Ok, the next invocation changes
\* nothing and applies nothing: it never gets past ComputePending, the
\* database stays as the previous invocation left it, and it returns 0
\* (or the error of one of its two read queries).
C8_Idempotent ==
    (run >= 2 /\ prev.result.status = "ok") =>
        /\ pc \in {"idle", "legacy_check", "get_version"}
        /\ db = prev.db
        /\ conn = db
        /\ executed = <<>>
        /\ ~backupOk
        /\ result.status = "ok" => result.applied = 0
        /\ result.status = "err" => result.at \in {"legacy_check", "get_version"}

\* C8 witness: the first invocation applied migrations, the second
\* returned 0.
C8_Witness ==
    /\ run = 2 /\ pc = "idle"
    /\ prev.result.status = "ok" /\ prev.result.applied > 0
    /\ result = Ok(0)

\* C9: from an empty database one successful invocation leaves the
\* tracking table present, max version = the highest registry version,
\* exactly one record per version 0..highest, and every migration's objects
\* in the schema.
C9_FreshInstallReachesLatest ==
    (run = 1 /\ pc = "idle" /\ result.status = "ok" /\ dbAtStart = LegacyDb(0)) =>
        /\ has_schema_migrations_table(db)
        /\ get_current_version(db) = Some(LatestVersion)
        /\ \A v \in 0..LatestVersion :
              /\ Cardinality(RowsOf(db.rows, v)) = 1
              /\ Effect(v) \subseteq db.schema
        /\ Len(db.rows) = LatestVersion + 1

\* C9 witness: the first invocation on the empty database returned Ok.
C9_Witness ==
    /\ run = 1 /\ pc = "idle" /\ result.status = "ok"
    /\ dbAtStart = LegacyDb(0)
    /\ result.applied = LatestVersion

\* C10: on a database built from the raw DDL of migrations 1..=k with no
\* tracking table, detect_legacy_version returns k, for every k from 0 to
\* the highest registry version.
C10_LegacyDetection ==
    \A k \in 0..LatestVersion :
        (run = 1 /\ pc = "apply_begin" /\ caller = "bootstrap"
            /\ dbAtStart = LegacyDb(k)) => legacy_version = k

\* C10 witness: the database built from migrations 1..=5 was detected as 5.
C10_Witness ==
    /\ run = 1 /\ pc = "apply_begin" /\ caller = "bootstrap"
    /\ dbAtStart = LegacyDb(5)
    /\ legacy_version = 5

\* ------------------------------------------------------------ C11 .. C20
\* the object the detector probes for each version
Marker(v) ==
    CASE v = 1 -> "trades"
      [] v = 2 -> "trades.planned_entries"
      [] v = 3 -> "trades.import_source"
      [] v = 4 -> "api_credentials.auto_sync_enabled"
      [] v = 5 -> "api_credentials.live_mirror_enabled"
      [] v = 6 -> "trades.deleted_at"
      [] v = 7 -> "trades.execution_portfolio"

\* detect_legacy_version has just returned (nothing is written yet)
Detected == pc = "apply_begin" /\ caller = "bootstrap" /\ db = dbAtStart

\* C11 (as claimed): for every schema the detector returns a version, 0
\* when no marker is present, and never a version v such that the
\* structural effect of some migration in 1..=v (at the least the object
\* the detector itself probes for that migration) is absent from the schema.
C11_DetectConservative ==
    Detected =>
        /\ legacy_version \in 0..LatestVersion
        /\ (\A v \in 1..LatestVersion : Marker(v) \notin db.schema) =>
              legacy_version = 0
        /\ \A u \in 1..legacy_version : Marker(u) \in db.schema

\* C11 (amended): for every schema the detector returns a version in
\* 0..highest; it returns 0 exactly when no marker is present, and
\* otherwise the highest version whose own marker is present.
C11_DetectHighestMarker ==
    Detected =>
        /\ legacy_version \in 0..LatestVersion
        /\ legacy_version = 0 <=>
              \A v \in 1..LatestVersion : Marker(v) \notin db.schema
        /\ legacy_version >= 1 =>
              /\ Marker(legacy_version) \in db.schema
              /\ \A u \in (legacy_version + 1)..LatestVersion :
                    Marker(u) \notin db.schema

\* C11 witness: 7 is returned for a schema that lacks migration 6's column.
C11_Witness ==
    /\ Detected
    /\ legacy_version = 7
    /\ "trades.deleted_at" \notin db.schema
    /\ "trades" \in db.schema

\* bootstrap_legacy_schema has just returned Ok
BootstrapDone == pc = "get_version" /\ caller = "bootstrap"

\* C12: after a successful bootstrap with detected version d the tracking
\* table holds exactly the records 0..=d: record 0 with a checksum, records
\* 1..=d with a null checksum and the legacy note, nothing above d.
C12_BootstrapPostcondition ==
    BootstrapDone =>
        /\ has_schema_migrations_table(db)
        /\ Len(db.rows) = legacy_version + 1
        /\ db.rows[1].version = 0
        /\ db.rows[1].checksum # NULL
        /\ \A i \in 2..Len(db.rows) :
              /\ db.rows[i].version = i - 1
              /\ db.rows[i].checksum = NULL
              /\ db.rows[i].notes = LegacyNote

\* C12 witness: the bootstrap of a version-4 legacy database completed.
C12_Witness ==
    /\ BootstrapDone
    /\ legacy_version = 4
    /\ Recorded(db) = 0..4

\* C13: on a legacy database at version k (no tracking table) a successful
\* invocation executes the bootstrap script and then exactly the scripts
\* k+1..highest in ascending order, none of 1..=k, and ends at the highest
\* version.
C13_LegacyAppliesOnlyNewer ==
    \A k \in 0..LatestVersion :
        (pc = "idle" /\ result.status = "ok" /\ dbAtStart = LegacyDb(k)) =>
            /\ LoopExecuted = [i \in 1..(LatestVersion - k) |-> k + i]
            /\ executed = <<0>> \o LoopExecuted
            /\ get_current_version(db) = Some(LatestVersion)

\* C13 witness: a version-3 legacy database was migrated by scripts 4..7.
C13_Witness ==
    /\ pc = "idle" /\ result.status = "ok"
    /\ dbAtStart = LegacyDb(3)
    /\ LoopExecuted = <<4, 5, 6, 7>>

\* C14 (as claimed): the runner verifies the checksums before it returns
\* Ok: an invocation on a database in which a stored checksum was changed
\* after a successful run returns an error.
C14_TamperFailsNextRun ==
    (pc = "idle" /\ run >= 2 /\ Tampered(dbAtStart)) => result.status = "err"

\* some record with a stored checksum differs from the registry's migration
\* of the same version
HasMismatch(d) ==
    \E i \in 1..Len(d.rows) : \E j \in 1..Len(migrations) :
        /\ d.rows[i].checksum # NULL
        /\ migrations[j].version = d.rows[i].version
        /\ d.rows[i].checksum # checksum(migrations[j])

VerifyStep ==
    (verify_result = "none" /\ verify_result' # "none") =>
        /\ db' = db /\ conn' = conn /\ backups' = backups
        /\ verify_result' # "query_failed" =>
              (verify_result' = "mismatch" <=> HasMismatch(db))
        /\ verify_result' # "query_failed" =>
              (verify_result' = "ok" <=> ~HasMismatch(db))

\* C15: verify_migrations changes nothing, and (its query succeeding) it
\* returns the mismatch error if and only if some record with a non-null
\* stored checksum differs from the checksum of the registry migration of
\* the same version.
C15_VerifyIffMismatch == [][VerifyStep]_vars

\* C15 witness: verify returned the mismatch error on a changed checksum.
C15_Witness ==
    /\ verify_result = "mismatch"
    /\ Tampered(db)

LegacyRows(d) == {i \in 1..Len(d.rows) : d.rows[i].notes = LegacyNote}

\* C16: no retroactive record carries a checksum, and verify never fails on
\* a database whose only unverifiable records are the legacy ones: after
\* bootstrap and migration to latest, verify returns Ok.
C16_LegacyRowsExempt ==
    /\ \A i \in LegacyRows(db) : db.rows[i].checksum = NULL
    /\ (verify_result = "mismatch") =>
          \E i \in 1..Len(db.rows) :
              i \notin LegacyRows(db) /\ RowMismatch(db.rows[i])
    /\ (verify_result \in {"ok", "mismatch"} /\ ~Tampered(db)) =>
          verify_result = "ok"

\* C16 witness: verify returned Ok on a bootstrapped version-5 legacy
\* database migrated to the latest version.
C16_Witness ==
    /\ verify_result = "ok"
    /\ Cardinality(LegacyRows(db)) = 5
    /\ Recorded(db) = 0..LatestVersion

\* C17: without outside changes, after any invocations (failed ones too)
\* every stored non-null checksum is the checksum of the registry migration
\* of its version, so verify_migrations returns Ok.
C17_StoredChecksumsMatch ==
    /\ \A i \in 1..Len(db.rows) :
          db.rows[i].checksum # NULL =>
              db.rows[i].checksum = checksum(MigrationAt(db.rows[i].version))
    /\ verify_migrations(db) = "ok"

\* C17 witness: a failed invocation followed by another failed one, with
\* checksummed records written by both.
C17_Witness ==
    /\ pc = "idle" /\ run = 2
    /\ result.status = "err" /\ prev.result.status = "err"
    /\ Len(db.rows) > Len(prev.db.rows)
    /\ Len(prev.db.rows) >= 2
    /\ db.rows[Len(db.rows)].checksum # NULL

\* C18: the registry entry at index i has version i: versions start at 0,
\* are contiguous and increasing, and version 0 is the bootstrap migration;
\* the migration the applier works on is the registry entry of its version.
C18_SequentialVersions ==
    /\ \A i \in 1..Len(migrations) : migrations[i].version = i - 1
    /\ Len(migrations) = LatestVersion + 1
    /\ migrations[1].name = "bootstrap"
    /\ pc \in ApplyPcs => migrations[migration.version + 1] = migration

\* C18 witness: the applier works on the last registry entry.
C18_Witness ==
    /\ pc = "apply_exec"
    /\ migration.version = LatestVersion
    /\ migration = migrations[Len(migrations)]

\* the pending set has just been computed
PendingComputed == pc = "backup" \/ (pc = "idle" /\ result.status = "ok")

AddedChecksummed ==
    {i \in (Len(dbAtStart.rows) + 1)..Len(db.rows) : db.rows[i].checksum # NULL}

\* C20 (as claimed): the returned count is the number of records with a
\* non-null checksum that the invocation added.
C20_CountIsAddedChecksummed ==
    (pc = "idle" /\ result.status = "ok") =>
        result.applied = Cardinality(AddedChecksummed)

\* C20 (amended): the returned count is the number of pending migrations
\* the apply loop applied: the added records with a non-null checksum and
\* a version >= 1; the bootstrap's version-0 record is not counted.
C20_CountIsLoopApplied ==
    (pc = "idle" /\ result.status = "ok") =>
        /\ result.applied =
              Cardinality({i \in AddedChecksummed : db.rows[i].version >= 1})
        /\ result.applied = Len(LoopExecuted)
        /\ Cardinality(AddedChecksummed) =
              result.applied +
                  (IF has_schema_migrations_table(dbAtStart) THEN 0 ELSE 1)

\* C20 witness: a fresh install returned 7 and added 8 checksummed records.
C20_Witness ==
    /\ pc = "idle" /\ result = Ok(LatestVersion)
    /\ Cardinality(AddedChecksummed) = LatestVersion + 1

\* ------------------------------------------------------------ C21 .. C30
\* the file the runner's backup_path names
SnapshotAt(files, name) == {f \in files : f.name = name}

\* create_backup returned in this step
BackupReturnsOk == pc = "backup" /\ pc' = "loop"
BackupReturnsErr == pc = "backup" /\ pc' = "idle"

BackupStepValid ==
    /\ BackupReturnsOk =>
          /\ backup_path' = <<target_version, clock'>>
          /\ \A f \in SnapshotAt(backups', backup_path') : f.state = "valid"
          /\ \A f \in SnapshotAt(backups' \ backups, backup_path') :
                f.mtime = clock' /\ f.content = db
    /\ (pc = "backup" /\ \E f \in backups' \ backups : f.state # "valid") =>
          /\ BackupReturnsErr
          /\ result'.status = "err"
          /\ backup_path' = NoPath

\* C21: create_backup returns a path only if the snapshot it wrote has a
\* non-zero size and passed the integrity check; when the snapshot is empty
\* or fails the integrity check it returns an error and no path.
C21_BackupValid == [][BackupStepValid]_vars

\* C21 witness: create_backup returned the path of a valid snapshot in a
\* directory that also holds an older corrupt one.
C21_Witness ==
    /\ pc = "loop" /\ backupOk
    /\ \E f \in SnapshotAt(backups, backup_path) : f.state = "valid"
    /\ \E f \in backups : f.state = "corrupt" /\ f.name # backup_path

\* the highest version of a non-empty pending sequence
HighestPending(pend) == SetMax({pend[i].version : i \in 1..Len(pend)})

BackupStepPending ==
    \* the directory changes only in create_backup, called with a non-empty
    \* pending set, once, before any pending migration ran
    /\ backups' # backups =>
          /\ pc = "backup"
          /\ pending # <<>>
          /\ ~backupOk
          /\ LoopExecuted = <<>>
          /\ backupOk' \/ pc' = "idle"
    \* a non-empty pending set leads to create_backup, an empty one to Ok(0)
    /\ (pc = "get_version" /\ pc' # "idle") => (pending' # <<>> /\ pc' = "backup")
    /\ (pc = "get_version" /\ result'.status = "ok") =>
          (pending' = <<>> /\ ~backupOk' /\ backups' = backups)
    \* the label is the highest pending version
    /\ BackupReturnsOk => backup_path'[1] = HighestPending(pending)
    \* no pending migration is applied without the backup
    /\ (pc' \in ApplyPcs /\ caller' = "loop") => backupOk'

\* C22: an invocation creates a backup only if its pending set is
\* non-empty and, create_backup succeeding, whenever it is non-empty; it
\* creates at most one, before the first pending migration is applied,
\* labelled with the highest pending version; with nothing pending the
\* backup directory is left as it was.
C22_BackupIffPending == [][BackupStepPending]_vars

\* C22 witness: a version-4 legacy database got its backup labelled 7 and
\* the first pending migration is being applied.
C22_Witness ==
    /\ pc = "apply_exec" /\ caller = "loop"
    /\ dbAtStart = LegacyDb(4)
    /\ backupOk /\ backup_path[1] = LatestVersion
    /\ migration.version = 5
    /\ Cardinality(backups) = 1

Snapshots(files) == {f \in files : IsSnapshot(f)}

\* the directory as create_backup left it before pruning
BeforePruning ==
    {f \in backups : f.name # backup_path'}
        \cup {BackupFile(backup_path', clock', db, "valid")}

PruningStep ==
    BackupReturnsOk =>
        LET before == BeforePruning
            deleted == before \ backups'
            kept == Snapshots(backups')
            n == Cardinality(Snapshots(before))
        IN
        /\ backups' \subseteq before
        /\ deleted \subseteq Snapshots(before)
        /\ n <= KeepBackups => deleted = {}
        /\ n > KeepBackups => Cardinality(deleted) <= n - KeepBackups
        \* every deletion succeeded
        /\ (n > KeepBackups /\ Cardinality(deleted) = n - KeepBackups) =>
              /\ Cardinality(kept) = KeepBackups
              /\ \A d \in deleted : \A k \in kept : d.mtime <= k.mtime
        \* whatever was deleted is among the oldest
        /\ \A d \in deleted :
              Cardinality({k \in Snapshots(before) : k.mtime < d.mtime})
                  < n - KeepBackups

\* C23: after a successful create_backup in which every deletion succeeds
\* the directory holds at most 5 snapshot files, the 5 with the most recent
\* modification times among those present before pruning; with 5 or fewer
\* snapshots nothing is deleted; files that are not snapshots are never
\* deleted.
C23_PruningKeepsNewest == [][PruningStep]_vars

\* C23 witness: the six old snapshots and the new one were pruned to five,
\* the new one among them, the file that is no snapshot still there.
C23_Witness ==
    /\ pc = "loop" /\ backupOk
    /\ Cardinality(Snapshots(prev.dir)) = KeepBackups + 1
    /\ Cardinality(Snapshots(backups)) = KeepBackups
    /\ SnapshotAt(backups, backup_path) # {}
    /\ \E f \in backups : ~IsSnapshot(f)
    /\ \A f \in Snapshots(backups) : f.mtime >= -4
    /\ run = 1

\* C24 (as claimed): the path create_backup produces is never the path of
\* a file that another create_backup call produced before: no snapshot that
\* existed when the invocation began is overwritten.
C24_SnapshotNeverOverwritten ==
    /\ backupOk => SnapshotAt(prev.dir, backup_path) = {}
    /\ \A f \in prev.dir : \A g \in backups : f.name = g.name => f = g

\* C25: the snapshot created in an invocation holds the database as it was
\* when the pending set was computed (its max version is current_version),
\* and stays so while the apply loop changes the database and after it.
C25_SnapshotIsPreMigrationState ==
    backupOk =>
        /\ Cardinality(SnapshotAt(backups, backup_path)) = 1
        /\ \A f \in SnapshotAt(backups, backup_path) :
              /\ f.content = dbAtPending
              /\ f.state = "valid"
              /\ get_current_version(f.content) = current_version

\* C25 witness: the loop applied three migrations and the snapshot still
\* holds the database of version 4.
C25_Witness ==
    /\ backupOk /\ pc = "loop"
    /\ applied = 3
    /\ current_version = Some(4)
    /\ get_current_version(db) = Some(7)
    /\ \E f \in SnapshotAt(backups, backup_path) : f.content # db

IsPrefix(a, b) == Len(a) <= Len(b) /\ SubSeq(b, 1, Len(a)) = a

AppendOnlyStep ==
    /\ IsPrefix(db.rows, db'.rows)
    /\ IsPrefix(db.rows, conn'.rows)
    /\ IsPrefix(dbAtStart'.rows, db'.rows)

\* C26: tracking-table records are append-only: no step of an invocation,
\* successful or failing, updates or deletes a committed record; every
\* record that existed keeps its version, name, checksum and notes.
C26_AppendOnly == [][AppendOnlyStep]_vars

\* C26 witness: a failing second invocation added records after those the
\* database held, retroactive ones among them.
C26_Witness ==
    /\ pc = "idle" /\ run = 2 /\ result.status = "err"
    /\ Len(db.rows) > Len(dbAtStart.rows)
    /\ Len(dbAtStart.rows) >= 2
    /\ dbAtStart.rows[2].checksum = NULL
    /\ IsPrefix(dbAtStart.rows, db.rows)

InBootstrapApply == pc \in ApplyPcs /\ caller = "bootstrap"

\* C27 (as claimed): in the bootstrap the version-0 migration is applied
\* first, then the detector runs, then the retroactive records 1..=detected
\* are inserted, then the consistency check runs.
C27_BootstrapOrderAsClaimed ==
    /\ pc = "detect" => 0 \in Recorded(db)
    /\ InBootstrapApply => executed \in {<<>>, <<0>>}
    /\ pc = "retro" => Recorded(db) = 0..(version - 1)
    /\ pc = "validate" => Recorded(db) = 0..legacy_version

\* C27 (amended): in the bootstrap the detector runs first, on the
\* database as it was found; then the version-0 migration is applied
\* (creating the tracking table); then the retroactive records 1..=detected
\* are inserted in ascending order; then the consistency check runs.
C27_BootstrapOrder ==
    /\ pc = "detect" =>
          /\ ~has_schema_migrations_table(db)
          /\ db = dbAtStart /\ executed = <<>>
    /\ InBootstrapApply =>
          /\ migration = MigrationAt(0)
          /\ db = dbAtStart
          /\ legacy_version = detect_legacy_version(dbAtStart)
          /\ executed \in {<<>>, <<0>>}
    /\ pc = "retro" =>
          /\ executed = <<0>>
          /\ version \in 1..(legacy_version + 1)
          /\ Recorded(db) = 0..(version - 1)
          /\ has_schema_migrations_table(db)
    /\ pc = "validate" =>
          /\ Recorded(db) = 0..legacy_version
          /\ Len(db.rows) = legacy_version + 1
          /\ executed = <<0>>

\* C27 witness: the consistency check is about to run on a version-3
\* legacy database with the records 0..3 written.
C27_Witness ==
    /\ pc = "validate"
    /\ legacy_version = 3
    /\ Recorded(db) = 0..3
    /\ ~has_schema_migrations_table(dbAtStart)

\* C28 (as claimed): the handle is handed to the application only after
\* the Migration Runner was invoked exactly once on it and returned Ok; on
\* a Runner error no handle is handed over.
C28_RunnerBeforeHandleShared ==
    /\ startup = "running" => (run = 1 /\ pc = "idle" /\ result.status = "ok")
    /\ result.status = "err" => startup # "running"

\* the task executes statements on a connection
Executing(t) == task[t] \in {"query", "transaction", "query_own", "statement"}

\* C29 (as claimed): after startup exactly one connection to the database
\* file exists, behind one mutex: no second connection is opened, and no two
\* tasks execute statements at the same time.
C29_SingleHandleOneLock ==
    startup = "running" =>
        /\ handles = {"main"}
        /\ \A t1, t2 \in Tasks :
              (Executing(t1) /\ Executing(t2)) => t1 = t2

Suspended(t) == task[t] \in {"await", "wait"}
AboutToLock(t) == task[t] \in {"lock", "lock2", "lock_own"}

\* C30: no task holds a database mutex while suspended at an await:
\* test_api_credentials and sync_exchange_trades release the lock before
\* the exchange request, sync_exchange_trades takes it again after it, and
\* no task locks a mutex it already holds.
C30_NoLockAcrossAwait ==
    \A t \in Tasks :
        /\ (Suspended(t) \/ AboutToLock(t) \/ task[t] = "idle") =>
              \A h \in Handles : holder[h] # t
        /\ task[t] \in {"query", "transaction"} => holder["main"] = t
        /\ task[t] \in {"query_own", "statement"} => holder["mirror"] = t

\* C30 witness: sync_exchange_trades awaits the exchange while
\* test_api_credentials holds the lock and runs its query.
C30_Witness ==
    /\ task["sync_exchange_trades"] = "await"
    /\ holder["main"] = "test_api_credentials"
    /\ task["test_api_credentials"] = "query"

\* ------------------------------------------------------------ C31 .. C39
\* the runner returned an error out of the bootstrap
BootstrapFailed ==
    /\ pc = "idle" /\ result.status = "err"
    /\ ~has_schema_migrations_table(dbAtStart)
    /\ result.at \in ApplyPcs \cup {"detect", "retro", "validate"}

\* the pending set holds a migration whose structure the schema already has
PendingAlreadyPresent ==
    /\ pc = "backup"
    /\ \E i \in 1..Len(pending) :
          /\ pending[i].version >= 1
          /\ Marker(pending[i].version) \in db.schema

\* C31 (as claimed): when the runner fails inside the bootstrap the
\* tracking table is absent or records every version 0..=detected, so no
\* later invocation has a migration pending whose marker is already in the
\* schema.
C31_BootstrapAllOrNothing ==
    /\ BootstrapFailed =>
          \/ ~has_schema_migrations_table(db)
          \/ Recorded(db) = 0..detect_legacy_version(dbAtStart)
    /\ ~PendingAlreadyPresent

\* C32: when the legacy detection returns an error the runner returns that
\* error and the database is as it was: no tracking table, no record, no
\* script executed, no file written.
C32_DetectErrorLeavesDb ==
    (pc = "idle" /\ result.status = "err" /\ result.at = "detect") =>
        /\ executed = <<>>
        /\ db = dbAtStart /\ conn = db
        /\ ~has_schema_migrations_table(db)
        /\ db.rows = <<>>
        /\ backups = prev.dir

\* C32 witness: the detection failed on a version-3 legacy database.
C32_Witness ==
    /\ pc = "idle" /\ result = Err("detect")
    /\ dbAtStart = LegacyDb(3)
    /\ db = LegacyDb(3)

\* the tracking table records a version above the registry's highest
NewerBuild(d) ==
    Recorded(d) # {} /\ SetMax(Recorded(d)) > LatestVersion

\* C33: on a database whose highest recorded version is above the
\* registry's highest, the runner never reaches the backup or a migration,
\* returns Ok(0) with no snapshot written and the database as it was, and
\* verify_migrations does not report the records of unknown versions.
C33_NewerBuildIsNoOp ==
    NewerBuild(dbAtStart) =>
        /\ pc \in {"idle", "legacy_check", "get_version"}
        /\ db = dbAtStart /\ conn = db
        /\ backups = {} /\ ~backupOk /\ executed = <<>>
        /\ (pc = "idle" /\ run >= 1 /\ result.status = "ok") => result.applied = 0
        /\ (pc = "idle" /\ run >= 1 /\ result.status = "err") =>
               result.at \in {"legacy_check", "get_version"}
        /\ verify_result # "mismatch"

\* C33 witness: the runner returned Ok(0) on a database holding a
\* checksummed record of version LatestVersion + 1, and verify_migrations
\* returned Ok.
C33_Witness ==
    /\ pc = "idle" /\ run = 1 /\ result = Ok(0)
    /\ verify_result = "ok"
    /\ NewerBuild(db)
    /\ \E i \in 1..Len(db.rows) :
          /\ db.rows[i].version = LatestVersion + 1
          /\ db.rows[i].checksum # NULL

\* C34 (as claimed): whenever create_backup has returned a path the file
\* of that name exists, whatever older snapshots the directory held and
\* whatever their modification times.
C34_NewSnapshotSurvives ==
    backupOk => SnapshotAt(backups, backup_path) # {}

\* a file of the backup directory that is not named pre_migration_*.db
OtherFile(f) == Len(f.name) = 1

CreateBackupKeepsOthers ==
    pc = "backup" =>
        /\ \A f \in backups : OtherFile(f) => f \in backups'
        /\ db' = db /\ conn' = conn

\* C35: a create_backup step removes no file of the backup directory that
\* is not named pre_migration_*.db, changes none of them, and leaves the
\* database as it was.
C35_PruningOnlySnapshots == [][CreateBackupKeepsOthers]_vars

\* C35 witness: create_backup returned after pruning a snapshot while an
\* older file of another name stayed in the directory.
C35_Witness ==
    /\ pc = "loop" /\ backupOk /\ run = 1
    /\ \E f \in prev.dir \ backups :
          \E g \in backups : OtherFile(g) /\ g.mtime < f.mtime
    /\ db = dbAtPending

\* the mirroring tasks of a credential that are running
Running(cred) ==
    {i \in 1..Len(ws_tasks) :
        ws_tasks[i].cred = cred /\ ws_tasks[i].state = "running"}

OneTaskPerCredential ==
    \A cred \in Credentials : Cardinality(Running(cred)) <= 1

\* the call of u returns in this step
CallReturns(u, op) ==
    /\ mcall[u].op = op
    /\ mcall[u].pc = "locked"
    /\ mcall'[u].pc = "idle"

Registered(cred) == active_connections[cred] # 0

MirrorUntouched ==
    /\ ws_tasks' = ws_tasks
    /\ active_connections' = active_connections

OneTaskStep ==
    /\ OneTaskPerCredential'
    /\ \A u \in Callers :
          (CallReturns(u, "start_mirroring") /\ Registered(mcall[u].cred)) =>
              mcall'[u].ret = "err_active" /\ MirrorUntouched
    /\ \A u \in Callers :
          (CallReturns(u, "stop_mirroring") /\ ~Registered(mcall[u].cred)) =>
              mcall'[u].ret = "err_none" /\ MirrorUntouched

\* C36: after every step at most one mirroring task per credential is
\* running; a start_mirroring that returns for a registered credential
\* returns the "already active" error and leaves the tasks and the map as
\* they were; a stop_mirroring that returns for a credential that is not
\* registered returns the "no active mirroring" error and leaves them too.
C36_OneTaskPerCredential == [][OneTaskStep]_vars

\* C36 witness: two calls ran side by side; the start for a credential
\* with a running task was rejected, the stop for the other, stopped
\* before, was rejected as well.
C36_Witness ==
    \E u, v \in Callers :
        /\ mcall[u] = [op |-> "start_mirroring", cred |-> "cred1",
                       pc |-> "idle", ret |-> "err_active"]
        /\ mcall[v] = [op |-> "stop_mirroring", cred |-> "cred2",
                       pc |-> "idle", ret |-> "err_none"]
        /\ Cardinality(Running("cred1")) = 1
        /\ \E i \in 1..Len(ws_tasks) :
              ws_tasks[i] = [cred |-> "cred2", state |-> "aborted"]

ActiveWhileRunningStep ==
    \A u \in Callers :
        /\ (CallReturns(u, "is_active") /\ mcall'[u].ret = "true") =>
               Running(mcall[u].cred) # {}
        /\ (CallReturns(u, "start_mirroring") /\ Running(mcall[u].cred) = {}) =>
               mcall'[u].ret # "err_active"

\* C37 (as claimed): is_active returns true only for a credential whose
\* mirroring task is running, and a start_mirroring for a credential with
\* no running task is not rejected as already active.
C37_ActiveOnlyWhileRunning == [][ActiveWhileRunningStep]_vars

\* every event of the position has been handled without an error and the
\* last one emitted was Closed
AllHandled(pos) ==
    LET H == {i \in 1..Len(handlers) : handlers[i].pos = pos} IN
    /\ H # {}
    /\ \A i \in H : handlers[i].pc = "done"
    /\ pos \notin ws_positions

\* C38 (as claimed): once the events of a position, the last of them
\* Closed, have all been handled, every trade created for the position is
\* closed and the position is not in tracked_positions.
C38_EventsInOrder ==
    \A pos \in Positions :
        AllHandled(pos) =>
            /\ tracked_positions[pos] = 0
            /\ \A t \in 1..Len(trades) :
                  trades[t].pos = pos => trades[t].status = "closed"

\* the auto-sync tasks of a credential that are running
Syncing(cred) ==
    {i \in 1..Len(sync_tasks) :
        sync_tasks[i].cred = cred /\ sync_tasks[i].state = "running"}

\* the task's handle is in the list, or is about to be pushed
Held(i) ==
    \/ \E j \in 1..Len(sched_tasks) : sched_tasks[j] = i
    \/ \E r \in Reloaders : reload[r].pc = "push" /\ reload[r].handle = i

AllHeld ==
    \A cred \in Credentials : \A i \in Syncing(cred) : Held(i)

\* C39 (as claimed): at most one auto-sync task per credential is running,
\* and every running task has its handle in the scheduler's list (or is
\* being entered into it), so that stop_all_tasks aborts it.
C39_OneSyncTaskPerCredential ==
    /\ \A cred \in Credentials : Cardinality(Syncing(cred)) <= 1
    /\ AllHeld

====
